---- MODULE Spec2Model ----
(***************************************************************************)
(* The CV pipeline of academic-advisor-backend.  Spec and FairSpec are the *)
(* upload orchestrator (app/api/v1/cv.py): the upload handler, the         *)
(* background task process_cv_background, and the status and result        *)
(* endpoints.  MergeSpec and ExtractSpec are the skill pipeline of         *)
(* SkillExtractor (app/services/skill_extractor.py), ParseSpec is CVParser *)
(* (app/services/cv_parser.py).  AppointmentSpec is the booking of slots   *)
(* (app/services/appointment_service.py) and WebSocketSpec the chat's      *)
(* WebSocketManager (app/services/websocket_manager.py).                   *)
(***************************************************************************)
EXTENDS Integers, Sequences, FiniteSets, TLC

(***************************************************************************)
(* Python strings.  A string is a TLA+ string; Len, SubSeq and \o act on   *)
(* it as on a sequence of characters.                                      *)
(***************************************************************************)
Min(S) == CHOOSE x \in S : \A y \in S : x <= y

Max(S) == CHOOSE x \in S : \A y \in S : x >= y

\* s[i-1] in Python: the i-th character, as a string of length one
Chr(s, i) == SubSeq(s, i, i)

Chars(s) == {Chr(s, i) : i \in 1..Len(s)}

UpperCase == "ABCDEFGHIJKLMNOPQRSTUVWXYZ"

LowerCase == "abcdefghijklmnopqrstuvwxyz"

UpperChars == Chars(UpperCase)

\* the characters the regular expression class \w matches
WordChars == Chars(UpperCase) \cup Chars(LowerCase) \cup Chars("0123456789_")

\* the characters the regular expression class \s matches
SpaceChars == {" ", "\n", "\t", "\r"}

\* str.lower() on each letter it changes
LowerOf ==
    [c \in UpperChars |->
        Chr(LowerCase, CHOOSE i \in 1..Len(UpperCase) : Chr(UpperCase, i) = c)]

\* s[from-1:] in Python
Suffix(s, from) == SubSeq(s, from, Len(s))

\* s.startswith(sub, i-1)
StartsAt(s, sub, i) ==
    /\ i >= 1
    /\ i + Len(sub) - 1 <= Len(s)
    /\ SubSeq(s, i, i + Len(sub) - 1) = sub

\* s.find(sub, from-1) + 1: the first position >= from where sub occurs, or 0
Find(s, sub, from) ==
    LET at == {i \in from..(Len(s) - Len(sub) + 1) : StartsAt(s, sub, i)}
    IN  IF at = {} THEN 0 ELSE Min(at)

\* sub in s
Contains(s, sub) == Find(s, sub, 1) # 0

\* s.count(sub) for a non-empty sub: occurrences that do not overlap
RECURSIVE CountFrom(_, _, _)
CountFrom(s, sub, from) ==
    LET i == Find(s, sub, from)
    IN  IF i = 0 THEN 0 ELSE 1 + CountFrom(s, sub, i + Len(sub))

Count(s, sub) == CountFrom(s, sub, 1)

\* s.strip(): without the white space at both ends
RECURSIVE Strip(_)
Strip(s) ==
    IF s = "" THEN ""
    ELSE IF Chr(s, 1) \in SpaceChars THEN Strip(Suffix(s, 2))
    ELSE IF Chr(s, Len(s)) \in SpaceChars THEN Strip(SubSeq(s, 1, Len(s) - 1))
    ELSE s

(***************************************************************************)
(* Bounds of the model.                                                    *)
(***************************************************************************)
\* number of upload ids uuid4 can hand out in one behaviour
MaxUploads == 2

UploadIds == 1..MaxUploads

(***************************************************************************)
(* Settings (app/config.py).                                               *)
(***************************************************************************)
MAX_FILE_SIZE == 10 * 1024 * 1024

ALLOWED_FILE_TYPES == {".pdf", ".doc", ".docx"}

(***************************************************************************)
(* Uploaded files.  A file name is the list of its dot-separated           *)
(* components (what filename.split('.') returns); a file is a name and a   *)
(* byte size.  The bytes themselves are not modelled: what a library makes *)
(* of them is a choice of the environment in the task steps below.         *)
(***************************************************************************)
FileNames ==
    { <<"cv", "pdf">>, <<"cv", "docx">>, <<"cv", "txt">>, <<"setup", "exe">> }

FileSizes == {MAX_FILE_SIZE, MAX_FILE_SIZE + 1}

Files == [file_name : FileNames, size : FileSizes]

NoFile == [file_name |-> <<>>, size |-> 0]

\* str.lower(): a string without capital letters as it is, a capital
\* letter by LowerOf, any other string by its halves (which keeps the
\* evaluation shallow)
RECURSIVE Lower(_)
Lower(s) ==
    IF \A i \in 1..Len(s) : Chr(s, i) \notin UpperChars THEN s
    ELSE IF Len(s) = 1 THEN LowerOf[s]
    ELSE LET half == Len(s) \div 2
         IN  Lower(SubSeq(s, 1, half)) \o Lower(Suffix(s, half + 1))

\* filename.split('.')[-1].lower()
FileExtension(file_name) == Lower(file_name[Len(file_name)])

\* validate_file(file, max_size, allowed_types): the size is at most max_size
\* and the name has a suffix that is one of allowed_types
ValidateFile(file, max_size, allowed_types) ==
    IF file.size > max_size
      THEN [valid |-> FALSE, error |-> "too large"]
      ELSE IF ("." \o FileExtension(file.file_name)) \notin allowed_types
             THEN [valid |-> FALSE, error |-> "type not allowed"]
             ELSE [valid |-> TRUE, error |-> ""]

(***************************************************************************)
(* CVParser.parse: which extensions it dispatches on, and whether the      *)
(* chosen parser can raise.  parse_pdf catches the failures of both of its *)
(* extraction methods, parse_text decodes with errors='ignore'; parse_docx *)
(* calls docx2txt.process unguarded, so it raises when the library cannot  *)
(* read the bytes (lib_ok = FALSE).                                        *)
(***************************************************************************)
ParserExtensions == {"pdf", "doc", "docx", "txt"}

ParseRaises(file_name, lib_ok) ==
    LET file_extension == FileExtension(file_name) IN
    CASE file_extension = "pdf"             -> FALSE
      [] file_extension \in {"doc", "docx"} -> ~lib_ok
      [] file_extension \in {"txt"}         -> FALSE
      [] OTHER                              -> TRUE

(***************************************************************************)
(* SkillExtractor.__init__: the skill database and the optional trained    *)
(* model.  A group of the database is a Python dict, which keeps the order *)
(* of its entries: a sequence of entries here.  category is "" where the   *)
(* entry has none.  Nothing writes self.skill_database after __init__, so  *)
(* the state holds only whether a model was loaded.                        *)
(***************************************************************************)
LoadSkillDatabase ==
    [ technical_skills |-> <<
        [name |-> "Python", aliases |-> <<"python3", "py">>,
         category |-> "programming", importance |-> 10],
        [name |-> "JavaScript", aliases |-> <<"js", "es6">>,
         category |-> "programming", importance |-> 9],
        [name |-> "React", aliases |-> <<"react.js", "reactjs">>,
         category |-> "web", importance |-> 8],
        [name |-> "Machine Learning", aliases |-> <<"ml", "machine-learning">>,
         category |-> "ai", importance |-> 9],
        [name |-> "Docker", aliases |-> <<"containerization">>,
         category |-> "devops", importance |-> 7] >>,
      soft_skills |-> <<
        [name |-> "Leadership", aliases |-> <<"team lead", "management">>,
         category |-> "", importance |-> 8],
        [name |-> "Communication", aliases |-> <<"interpersonal">>,
         category |-> "", importance |-> 9] >>,
      certifications |-> <<
        [name |-> "AWS Certified", aliases |-> <<"aws certification">>,
         category |-> "", importance |-> 8],
        [name |-> "PMP", aliases |-> <<"project management professional">>,
         category |-> "", importance |-> 7] >> ]

\* SkillExtractor.extract raises only through the model calls of
\* extract_ml_based, which run only when a model was loaded
ExtractRaises(extractor, lib_ok) == extractor.model /\ ~lib_ok

(***************************************************************************)
(* The pydantic model CVAnalysis: the fields without a default that are    *)
(* not Optional, and the keyword arguments process_cv_background passes.   *)
(* The constructor raises a ValidationError when a required field is       *)
(* missing.                                                                *)
(***************************************************************************)
CVAnalysisRequired ==
    { "upload_id", "user_id", "parsed_data", "skills", "experience",
      "education", "nlp_analysis", "status" }

CVAnalysisPassed ==
    { "upload_id", "user_id", "parsed_data", "skills", "nlp_analysis",
      "status", "completed_at" }

CVAnalysisRaises == ~(CVAnalysisRequired \subseteq CVAnalysisPassed)

(***************************************************************************)
(* State.                                                                  *)
(***************************************************************************)
VARIABLES
    issued,           \* the upload ids uuid4 has returned
    bucket,           \* blob store: upload id -> the file written under it
    enqueued,         \* upload id -> number of add_task calls for it
    task,             \* upload id -> position and outcome of its background task
    stdout,           \* the lines process_cv_background printed
    skill_extractor,  \* the module-level SkillExtractor: was a model loaded
    response,         \* the last HTTP response sent
    merger,           \* one run of combine_skills / calculate_confidence / rank_skills
    extraction,       \* one run of SkillExtractor.extract
    parser,           \* one run of CVParser.parse
    appointment_service,  \* Firestore as AppointmentService uses it, and its requests
    websocket_manager     \* the WebSocketManager and its calls underway

vars == <<issued, bucket, enqueued, task, stdout, skill_extractor, response>>

\* the variables of the appointment and the chat service, which share
\* nothing with the CV pipeline
serviceVars == <<appointment_service, websocket_manager>>

\* the variables of the skill pipeline, of the parser and of the other
\* services, which the orchestrator's actions leave alone (of the first
\* two they only await the results)
pipelineVars == <<merger, extraction, parser, serviceVars>>

allVars == <<vars, pipelineVars>>

NoTask == [pc |-> "none", raised |-> "", analysis_result |-> FALSE]

NoResponse ==
    [ endpoint |-> "none", file |-> NoFile, status_code |-> 0, upload_id |-> 0,
      status |-> "", result_url |-> 0, skills |-> <<>>, keys |-> {} ]

\* no pipeline run underway
Idle == [pc |-> "idle"]

\* the appointment and the chat service are not in use
NoServices == appointment_service = Idle /\ websocket_manager = Idle

\* the module-level objects of app/api/v1/cv.py right after import
InitJobs ==
    /\ issued = {}
    /\ bucket = [j \in UploadIds |-> NoFile]
    /\ enqueued = [j \in UploadIds |-> 0]
    /\ task = [j \in UploadIds |-> NoTask]
    /\ stdout = {}
    /\ skill_extractor \in [model : BOOLEAN]
    /\ response = NoResponse

Init ==
    /\ InitJobs
    /\ merger = Idle
    /\ extraction = Idle
    /\ parser = Idle
    /\ NoServices

(***************************************************************************)
(* POST /upload.  storage is what the blob store does once the file passed *)
(* validation: "ok", or it raises in upload_from_string ("upload_fails")   *)
(* or in generate_signed_url ("sign_fails"); both end in the handler's     *)
(* HTTP 500.                                                               *)
(***************************************************************************)
\* a generator of upload ids that can return an id a second time
ReusedUploadIds == UploadIds

\* uuid.uuid4(): an id never returned before; the ids are numbered in the
\* order in which uuid4 returns them
NewUploadIds == {j \in UploadIds : j = Cardinality(issued) + 1}

\* a handler that never looks at validation_result["valid"]
NeverRejected(validation_result) == FALSE

\* if not validation_result["valid"]: raise CustomException(status_code=400, ...)
Rejected(validation_result) == ~validation_result.valid

\* a handler that skips the write to the blob store
BlobNotWritten(upload_id, file, storage) == bucket

\* blob.upload_from_string(content, ...): the bucket afterwards
BlobWritten(upload_id, file, storage) ==
    IF storage = "upload_fails" THEN bucket
    ELSE [bucket EXCEPT ![upload_id] = file]

StorageOutcomes == {"ok", "upload_fails", "sign_fails"}

UploadCv(file) ==
    LET validation_result == ValidateFile(file, MAX_FILE_SIZE, ALLOWED_FILE_TYPES) IN
    IF Rejected(validation_result)
      THEN /\ response' = [NoResponse EXCEPT !.endpoint = "upload", !.file = file,
                                              !.status_code = 400,
                                              !.keys = {"detail", "code"}]
           /\ UNCHANGED <<issued, bucket, enqueued, task, stdout, skill_extractor>>
      ELSE \E upload_id \in NewUploadIds, storage \in StorageOutcomes :
             /\ issued' = issued \cup {upload_id}
             /\ bucket' = BlobWritten(upload_id, file, storage)
             /\ IF storage = "ok"
                  THEN /\ enqueued' = [enqueued EXCEPT ![upload_id] = @ + 1]
                       /\ task' = [task EXCEPT ![upload_id].pc = "queued"]
                       /\ response' = [NoResponse EXCEPT !.endpoint = "upload",
                                         !.file = file, !.status_code = 202,
                                         !.upload_id = upload_id,
                                         !.status = "processing",
                                         !.keys = {"upload_id", "status",
                                                   "file_url", "message"}]
                  ELSE /\ UNCHANGED <<enqueued, task>>
                       /\ response' = [NoResponse EXCEPT !.endpoint = "upload",
                                         !.file = file, !.status_code = 500,
                                         !.keys = {"detail"}]
             /\ UNCHANGED <<stdout, skill_extractor>>

(***************************************************************************)
(* process_cv_background, one action per stretch between two awaits.  A    *)
(* stage that raises ends the task in the except branch, which prints the  *)
(* error and returns.                                                      *)
(***************************************************************************)
\* an except branch that lets the error take the other running tasks down
ExceptStopsOthers(upload_id, stage) ==
    /\ task' = [j \in UploadIds |->
                  IF j = upload_id \/ task[j].pc \in {"queued", "parsed", "extracted"}
                    THEN [pc |-> "returned", raised |-> stage, analysis_result |-> FALSE]
                    ELSE task[j]]
    /\ stdout' = stdout \cup {[upload_id |-> upload_id, error |-> stage]}

Except(upload_id, stage) ==
    /\ task' = [task EXCEPT ![upload_id] =
                  [pc |-> "returned", raised |-> stage, analysis_result |-> FALSE]]
    /\ stdout' = stdout \cup {[upload_id |-> upload_id, error |-> stage]}

\* parsed_data = await cv_parser.parse(file_content, file_name)
RunParse(upload_id, lib_ok) ==
    /\ task[upload_id].pc = "queued"
    /\ IF ParseRaises(bucket[upload_id].file_name, lib_ok)
         THEN Except(upload_id, "parse")
         ELSE /\ task' = [task EXCEPT ![upload_id].pc = "parsed"]
              /\ UNCHANGED stdout
    /\ UNCHANGED <<issued, bucket, enqueued, skill_extractor, response>>

\* skills = await skill_extractor.extract(parsed_data["text"])
RunExtract(upload_id, lib_ok) ==
    /\ task[upload_id].pc = "parsed"
    /\ IF ExtractRaises(skill_extractor, lib_ok)
         THEN Except(upload_id, "skills")
         ELSE /\ task' = [task EXCEPT ![upload_id].pc = "extracted"]
              /\ UNCHANGED stdout
    /\ UNCHANGED <<issued, bucket, enqueued, skill_extractor, response>>

\* nlp_analysis = await nlp_service.analyze(parsed_data["text"]); then
\* analysis_result = CVAnalysis(...) and the task returns (the save and the
\* notification are commented out).  lib_ok: the model calls analyze makes
\* without a guard, spaCy and the NER pipeline of extract_entities, return;
\* a failure of the summarizer is caught inside generate_summary and only
\* changes the summary
RunAnalyze(upload_id, lib_ok) ==
    /\ task[upload_id].pc = "extracted"
    /\ IF ~lib_ok
         THEN Except(upload_id, "nlp")
         ELSE IF CVAnalysisRaises
                THEN Except(upload_id, "validation")
                ELSE /\ task' = [task EXCEPT ![upload_id] =
                                   [pc |-> "returned", raised |-> "",
                                    analysis_result |-> TRUE]]
                     /\ UNCHANGED stdout
    /\ UNCHANGED <<issued, bucket, enqueued, skill_extractor, response>>

(***************************************************************************)
(* GET /status/{upload_id} and GET /results/{upload_id}: no lookup is      *)
(* made, the answer is a literal.  A client asks about the ids it was      *)
(* given in a 202 response.                                                *)
(***************************************************************************)
KnownIds == {j \in UploadIds : enqueued[j] > 0}

GetProcessingStatus(upload_id) ==
    /\ response' = [NoResponse EXCEPT !.endpoint = "status", !.status_code = 200,
                                      !.upload_id = upload_id,
                                      !.status = "completed",
                                      !.result_url = upload_id,
                                      !.keys = {"upload_id", "status",
                                                "progress", "result_url"}]
    /\ UNCHANGED <<issued, bucket, enqueued, task, stdout, skill_extractor>>

MockSkills == <<"Python", "Machine Learning", "React">>

GetCvResults(upload_id) ==
    /\ response' = [NoResponse EXCEPT !.endpoint = "results", !.status_code = 200,
                                      !.upload_id = upload_id,
                                      !.skills = MockSkills,
                                      !.keys = {"upload_id", "skills", "experience",
                                                "education", "analysis"}]
    /\ UNCHANGED <<issued, bucket, enqueued, task, stdout, skill_extractor>>

Next ==
    \/ \E file \in Files :
          UploadCv(file) /\ UNCHANGED pipelineVars
    \/ \E upload_id \in UploadIds, lib_ok \in BOOLEAN :
          RunParse(upload_id, lib_ok) /\ UNCHANGED pipelineVars
    \/ \E upload_id \in UploadIds, lib_ok \in BOOLEAN :
          RunExtract(upload_id, lib_ok) /\ UNCHANGED pipelineVars
    \/ \E upload_id \in UploadIds, lib_ok \in BOOLEAN :
          RunAnalyze(upload_id, lib_ok) /\ UNCHANGED pipelineVars
    \/ \E upload_id \in KnownIds :
          GetProcessingStatus(upload_id) /\ UNCHANGED pipelineVars
    \/ \E upload_id \in KnownIds :
          GetCvResults(upload_id) /\ UNCHANGED pipelineVars

Spec == Init /\ [][Next]_vars

\* the event loop runs every task added with add_task, each await resuming
TaskStep(upload_id) ==
    /\ UNCHANGED pipelineVars
    /\ \E lib_ok \in BOOLEAN :
         \/ RunParse(upload_id, lib_ok)
         \/ RunExtract(upload_id, lib_ok)
         \/ RunAnalyze(upload_id, lib_ok)

FairSpec == Spec /\ \A upload_id \in UploadIds : WF_vars(TaskStep(upload_id))

(***************************************************************************)
(* The lifecycle state of a job, read off what the code did for it: the    *)
(* file persisted (pending), the task enqueued (processing), the task      *)
(* returned normally with its CVAnalysis built (completed) or through the  *)
(* except branch (failed).                                                 *)
(***************************************************************************)
JobState(j) ==
    CASE task[j].pc = "returned" /\ task[j].raised = "" -> "completed"
      [] task[j].pc = "returned" /\ task[j].raised # "" -> "failed"
      [] task[j].pc # "returned" /\ enqueued[j] > 0     -> "processing"
      [] enqueued[j] = 0 /\ bucket[j] # NoFile          -> "pending"
      [] OTHER                                          -> "none"

Terminal == {"completed", "failed"}

\* creation of a job, then the three edges of the state machine
LifecycleEdges ==
    { <<"none", "pending">>, <<"none", "processing">>, <<"pending", "processing">>,
      <<"processing", "completed">>, <<"processing", "failed">> }

\* C1: the lifecycle state of every job changes only along creation,
\* pending->processing, processing->completed and processing->failed, so
\* nothing leaves completed or failed; and two consecutive answers about the
\* same job never report a status that goes backwards.
C1_StatusTransitions ==
    [][ /\ \A j \in UploadIds :
             JobState(j)' # JobState(j)
               => <<JobState(j), JobState(j)'>> \in LifecycleEdges
        /\ ( /\ response'.upload_id = response.upload_id
             /\ response.status # ""
             /\ response'.status # ""
             /\ response'.status # response.status )
             => <<response.status, response'.status>> \in LifecycleEdges
      ]_vars

\* a job that went processing->failed while another one is still underway,
\* after the client was told "processing" and then "completed" about it
C1_Witness ==
    \E j, k \in UploadIds :
        /\ JobState(j) = "failed"
        /\ JobState(k) = "processing"
        /\ response.endpoint = "status"
        /\ response.upload_id = j

\* C2: a job whose document extractor raised is recorded as failed: once its
\* task has ended that way, no answer of the status endpoint about it names a
\* terminal status other than "failed".
C2_ExtractorFailureRecorded ==
    \A j \in UploadIds :
        ( /\ task[j].raised = "parse"
          /\ response.endpoint = "status"
          /\ response.upload_id = j
          /\ response.status \notin {"pending", "processing"} )
          => response.status = "failed"

\* C3: when the pipeline of a job raised, the job carries the error: the
\* status answered for it is "failed" with an error detail and without a
\* pointer to results.
C3_ErrorRecordedOnFailure ==
    \A j \in UploadIds :
        ( /\ JobState(j) = "failed"
          /\ response.endpoint = "status"
          /\ response.upload_id = j
          /\ response.status \notin {"pending", "processing"} )
          => /\ response.status = "failed"
             /\ "error" \in response.keys
             /\ "result_url" \notin response.keys

\* C4: a task in which parsing, skill extraction and NLP analysis all
\* succeeded returns with its CVAnalysis built, and the job is completed.
C4_SuccessStoresAnalysis ==
    \A j \in UploadIds :
        (task[j].pc = "returned" /\ task[j].raised \notin {"parse", "skills", "nlp"})
          => /\ task[j].analysis_result
             /\ JobState(j) = "completed"

\* C5: an upload that passes validation runs no pipeline stage; its 202
\* answer says "processing" for a new id whose bytes are in the blob store
\* and for which exactly one task is enqueued; and the pipeline of a job
\* starts only with its bytes persisted and its task enqueued.
C5_UploadThenPipeline ==
    [][ /\ issued' # issued
          => /\ \A j \in UploadIds :
                  task'[j].pc \in {"parsed", "extracted", "returned"}
                    => task'[j] = task[j]
             /\ response'.endpoint = "upload"
             /\ response'.status_code \in {202, 500}
        /\ (response' # response /\ response'.status_code = 202)
          => /\ response'.upload_id \in issued' \ issued
             /\ response'.status = "processing"
             /\ bucket'[response'.upload_id] = response'.file
             /\ enqueued'[response'.upload_id] = 1
             /\ task'[response'.upload_id].pc = "queued"
             /\ \A k \in UploadIds \ {response'.upload_id} :
                  enqueued'[k] = enqueued[k] /\ task'[k] = task[k]
        /\ \A j \in UploadIds :
             task'[j].pc # "none"
               => bucket'[j] # NoFile /\ enqueued'[j] = 1
      ]_vars

\* a 202 answer for a job whose file is stored and whose task waits, while an
\* earlier job's pipeline has already started
C5_Witness ==
    \E j, k \in UploadIds :
        /\ response.endpoint = "upload"
        /\ response.status_code = 202
        /\ response.upload_id = j
        /\ task[j].pc = "queued"
        /\ bucket[j] = response.file
        /\ task[k].pc = "parsed"

\* C6: an upload that fails validation is answered 400 and has no effect: no
\* id is generated, nothing is written to the blob store, no task is enqueued.
C6_InvalidUploadRejected ==
    [][ ( /\ response' # response
          /\ response'.endpoint = "upload"
          /\ ~ValidateFile(response'.file, MAX_FILE_SIZE, ALLOWED_FILE_TYPES).valid )
          => /\ response'.status_code = 400
             /\ response'.upload_id = 0
             /\ UNCHANGED <<issued, bucket, enqueued, task>>
      ]_vars

\* an .exe upload answered 400 after another upload was accepted
C6_Witness ==
    /\ response.endpoint = "upload"
    /\ response.status_code = 400
    /\ FileExtension(response.file.file_name) = "exe"
    /\ issued # {}

\* C7: an upload is accepted exactly when its size is at most the maximum and
\* its extension is one the Document Extractor parses (pdf, doc, docx, txt).
C7_AcceptedExactlyWhenParsable ==
    response.endpoint = "upload"
      => ( response.status_code # 400
             <=> /\ response.file.size <= MAX_FILE_SIZE
                 /\ FileExtension(response.file.file_name) \in ParserExtensions )

\* C8: the status endpoint answers one of the four states, and a terminal
\* status or a pointer to results only for a job that is in that state.
C8_StatusIsCurrentState ==
    response.endpoint = "status"
      => /\ response.status \in {"pending", "processing", "completed", "failed"}
         /\ response.status \in Terminal
              => response.status = JobState(response.upload_id)
         /\ response.result_url # 0
              => JobState(response.upload_id) = "completed"

\* C9: the result endpoint answers with a result only for a completed job,
\* and then with the skills of the CVAnalysis that job's task built.
C9_ResultsOfOwnRun ==
    (response.endpoint = "results" /\ response.status_code = 200)
      => /\ JobState(response.upload_id) = "completed"
         /\ task[response.upload_id].analysis_result

\* what belongs to one job: its task, its blob, its queue entry, its log lines
JobView(j) ==
    <<task[j], bucket[j], enqueued[j], {line \in stdout : line.upload_id = j}>>

\* C10: a step of one job's task (its failure included) changes nothing of
\* any other job and never changes the shared extractor data, and every
\* enqueued task runs to its end whatever happens to the others.
C10_JobIsolation ==
    /\ [][ /\ skill_extractor' = skill_extractor
           /\ \A i, j \in UploadIds :
                (i # j /\ task'[i] # task[i]) => JobView(j)' = JobView(j)
         ]_vars
    /\ \A j \in UploadIds :
         (task[j].pc = "queued") ~> (task[j].pc = "returned")

\* one job's task ended in the except branch while the other, untouched by
\* it, went on and ended on its own
C10_Witness ==
    \E i, j \in UploadIds :
        /\ i # j
        /\ task[i].raised = "parse"
        /\ task[j].pc = "returned"
        /\ task[j].raised = "validation"

(***************************************************************************)
(* fuzz.ratio of fuzzywuzzy (skill_extractor.py line 5), the normalized    *)
(* edit similarity 2*M/T in percent, where T is the length of both strings *)
(* together and M the number of characters an edit script of insertions    *)
(* and deletions keeps, i.e. the length of a longest common subsequence;   *)
(* the quotient is rounded as Python's round() does, halves to the even    *)
(* neighbour.  The library answers 100 for equal strings and otherwise 0   *)
(* when one string is empty.                                               *)
(***************************************************************************)
\* one row of the dynamic programme: row[j] is the longest common
\* subsequence of the prefix of a that ends in c with the first j
\* characters of b, prev is the row of the prefix without c; c is left
\* out or paired with one of its occurrences among the j characters
LcsRow(prev, c, b) ==
    [j \in 0..Len(b) |->
        Max({prev[j]} \cup {prev[k - 1] + 1 : k \in {k \in 1..j : Chr(b, k) = c}})]

RECURSIVE LcsRows(_, _, _, _)
LcsRows(a, b, i, prev) ==
    IF i > Len(a) THEN prev[Len(b)]
    ELSE LcsRows(a, b, i + 1, LcsRow(prev, Chr(a, i), b))

\* the rows run over the shorter string: the length is the same either way
LCS(a, b) ==
    IF Len(a) <= Len(b)
      THEN LcsRows(a, b, 1, [j \in 0..Len(b) |-> 0])
      ELSE LcsRows(b, a, 1, [j \in 0..Len(a) |-> 0])

\* int(round(n / d)) for n >= 0, d > 0
Round(n, d) ==
    LET q == n \div d
        r == n % d
    IN  IF 2 * r > d \/ (2 * r = d /\ q % 2 = 1) THEN q + 1 ELSE q

FuzzRatio(s1, s2) ==
    IF s1 = s2 THEN 100
    ELSE IF s1 = "" \/ s2 = "" THEN 0
    ELSE Round(100 * 2 * LCS(s1, s2), Len(s1) + Len(s2))

(***************************************************************************)
(* Skill dicts.  The generators build one dict per candidate and the       *)
(* merger updates these dicts in place, so the dicts live in a heap (a     *)
(* sequence of records) and the lists of the program are sequences of heap *)
(* indices.  A key the dict does not have is "" for category and for      *)
(* matched_text, <<>> for sources (the code reads an absent list as an     *)
(* empty one) and NoValue for the two scores; the context of a pattern     *)
(* match, which nothing reads, is left out.  importance_score is held in   *)
(* tenths, which is exact for the products with 1.2 the code forms.        *)
(***************************************************************************)
NoValue == -1

Candidate(name, category, type) ==
    [name |-> name, category |-> category, type |-> type, matched_text |-> "",
     sources |-> <<>>, confidence |-> NoValue, importance_score |-> NoValue]

\* dict.get(key, default) on a score
Get(value, default) == IF value = NoValue THEN default ELSE value

Range(seq) == {seq[i] : i \in DOMAIN seq}

\* combine_skills, lines 192-201: the candidate is merged into an
\* existing entry
SimilarExact(skill_key, existing_key) == skill_key = existing_key

Similar(skill_key, existing_key) == FuzzRatio(skill_key, existing_key) > 85

\* combine_skills, lines 203-205: the candidate becomes an entry
AcceptKeepingSources(heap, s) ==
    [heap EXCEPT ![s].sources = Append(@, heap[s].type)]

Accept(heap, s) == [heap EXCEPT ![s].sources = <<heap[s].type>>]

\* combine_skills, lines 196-199: the type of candidate s is added to the
\* sources of the entry it is similar to
MergeNothing(heap, existing, s) == heap

MergeInto(heap, existing, s) ==
    [heap EXCEPT ![existing].sources = Append(@, heap[s].type)]

\* combine_skills over the candidates order (all the lists one after the
\* other); combined is the dict under construction, its keys being the
\* lowercased names of its entries, in insertion order
RECURSIVE CombineSkills(_, _, _)
CombineSkills(heap, order, combined) ==
    IF order = <<>> THEN [heap |-> heap, skills |-> combined]
    ELSE
      LET s == Head(order)
          skill_key == Lower(heap[s].name)
          found == {k \in 1..Len(combined) :
                        Similar(skill_key, Lower(heap[combined[k]].name))}
      IN  IF found # {}
            THEN LET existing == combined[Min(found)]
                 IN  CombineSkills(MergeInto(heap, existing, s),
                                   Tail(order), combined)
            ELSE CombineSkills(Accept(heap, s), Tail(order), Append(combined, s))

proficiency_terms == {"expert", "advanced", "proficient", "experienced", "skilled"}

\* re.search(rf'skills.*{re.escape(skill_lower)}', text_lower, re.DOTALL)
InSkillsSection(text_lower, skill_lower) ==
    LET at == Find(text_lower, "skills", 1)
    IN  at # 0 /\ Find(text_lower, skill_lower, at + Len("skills")) # 0

\* calculate_confidence, line 238
Unclamped(confidence) == confidence

Clamp(confidence) == Min({confidence, 95})

\* the body of the loop of calculate_confidence
Confidence(skill, text_lower) ==
    LET skill_lower == Lower(skill.name)
        frequency == Count(text_lower, skill_lower)
    IN  Clamp(60
              + Min({frequency * 5, 20})
              + Len(skill.sources) * 10
              + (IF \E term \in proficiency_terms :
                       \/ Contains(text_lower, term \o " " \o skill_lower)
                       \/ Contains(text_lower, skill_lower \o " " \o term)
                   THEN 15 ELSE 0)
              + (IF InSkillsSection(text_lower, skill_lower) THEN 10 ELSE 0))

CalculateConfidence(heap, skills, text) ==
    [i \in DOMAIN heap |->
        IF i \in Range(skills)
          THEN [heap[i] EXCEPT !.confidence = Confidence(heap[i], Lower(text))]
          ELSE heap[i]]

\* the entry of technical_skills under this exact name, if any
TechnicalSkill(skill_database, name) ==
    {e \in Range(skill_database.technical_skills) : e.name = name}

\* the body of the loop of rank_skills, in tenths
ImportanceScore(skill, skill_database) ==
    LET confidence == Get(skill.confidence, 50)
        boosted == IF skill.category \in {"programming", "web", "data", "ai"}
                     THEN confidence * 12 ELSE confidence * 10
        entry == TechnicalSkill(skill_database, skill.name)
    IN  IF entry # {}
          THEN boosted + (CHOOSE e \in entry : TRUE).importance * 5 * 10
          ELSE boosted

\* list.sort(key, reverse=True) is stable: an item goes behind every item
\* whose key is not smaller
PlaceBeforeEqual(key, x, sorted) ==
    Cardinality({k \in DOMAIN sorted : key[sorted[k]] > key[x]})

Place(key, x, sorted) ==
    Cardinality({k \in DOMAIN sorted : key[sorted[k]] >= key[x]})

RECURSIVE SortReverse(_, _, _)
SortReverse(key, items, sorted) ==
    IF items = <<>> THEN sorted
    ELSE LET x == Head(items)
             p == Place(key, x, sorted)
         IN  SortReverse(key, Tail(items),
                         SubSeq(sorted, 1, p) \o <<x>> \o SubSeq(sorted, p + 1, Len(sorted)))

RankSkills(heap, skills, skill_database) ==
    LET scored == [i \in DOMAIN heap |->
                      IF i \in Range(skills)
                        THEN [heap[i] EXCEPT !.importance_score =
                                  ImportanceScore(heap[i], skill_database)]
                        ELSE heap[i]]
        key == [i \in DOMAIN heap |-> Get(scored[i].importance_score, 0)]
    IN  [heap |-> scored, skills |-> SortReverse(key, skills, <<>>)]

(***************************************************************************)
(* MergeSpec: the Skill Merger on its own.  One behaviour hands a list of  *)
(* candidate dicts and a text to combine_skills, calculate_confidence and  *)
(* rank_skills, as extract does in lines 74-80, and then hands the same    *)
(* dicts and the same text to the three once more.                         *)
(***************************************************************************)
MaxCandidates == 3

\* candidates as the three generators build them (lines 98-103, 148-152,
\* 174-178); the model's dicts carry its probability as confidence
CandidatePool ==
    { [Candidate("Python", "programming", "technical") EXCEPT !.matched_text = "Python"],
      [Candidate("Leadership", "soft", "soft") EXCEPT !.matched_text = "Leadership"],
      [Candidate("Python", "", "ml_predicted") EXCEPT !.confidence = 1],
      Candidate("python", "", "pattern_extracted"),
      Candidate("Pythons", "", "pattern_extracted"),
      Candidate("Pyhon", "", "pattern_extracted"),
      Candidate("Docker", "", "pattern_extracted"),
      Candidate("Git", "", "pattern_extracted") }

\* the lists of up to MaxCandidates candidates; the rule-based and the
\* model-based generator name a skill once, the pattern-based one names an
\* item as often as the text lists it
CandidateLists ==
    {list \in UNION {[1..n -> CandidatePool] : n \in 0..MaxCandidates} :
        \A i, j \in DOMAIN list :
            (i # j /\ list[i] = list[j]) => list[i].type = "pattern_extracted"}

MergeTexts ==
    { "",
      "Pyhon, Git and Leadership",
      "Skills: expert Python, python, PYTHON, Pythons, Docker" }

\* the values of the dicts of a list, as a caller reads them
Snapshot(heap, skills) == [k \in DOMAIN skills |-> heap[skills[k]]]

\* the merger does not read the trained model: the runs without one
MergeInit ==
    /\ InitJobs
    /\ ~skill_extractor.model
    /\ extraction = Idle
    /\ parser = Idle
    /\ NoServices
    /\ \E candidates \in CandidateLists, text \in MergeTexts :
          merger = [pc |-> "candidates", text |-> text, heap |-> candidates,
                    skills |-> <<>>, given |-> <<>>, run |-> 1, first |-> <<>>]

\* all_skills = self.combine_skills(...)
MergeCombine ==
    /\ merger.pc = "candidates"
    /\ LET all_skills == CombineSkills(merger.heap,
                                       [i \in 1..Len(merger.heap) |-> i], <<>>)
       IN  merger' = [merger EXCEPT !.pc = "combined",
                                    !.heap = all_skills.heap,
                                    !.skills = all_skills.skills]

\* skills_with_confidence = await self.calculate_confidence(all_skills, text)
MergeConfidence ==
    /\ merger.pc = "combined"
    /\ merger' = [merger EXCEPT !.pc = "scored",
                                !.heap = CalculateConfidence(merger.heap,
                                             merger.skills, merger.text)]

\* ranked_skills = self.rank_skills(skills_with_confidence); given is the
\* list as it was handed over, which the sort in place overwrites
MergeRank ==
    /\ merger.pc = "scored"
    /\ LET ranked_skills == RankSkills(merger.heap, merger.skills,
                                       LoadSkillDatabase)
       IN  merger' = [merger EXCEPT !.pc = "ranked",
                                    !.heap = ranked_skills.heap,
                                    !.skills = ranked_skills.skills,
                                    !.given = merger.skills]

\* the caller keeps what the first run returned and runs the merger again
\* on the same dicts
MergeAgain ==
    /\ merger.pc = "ranked"
    /\ merger.run = 1
    /\ merger' = [merger EXCEPT !.pc = "candidates",
                                !.run = 2,
                                !.first = Snapshot(merger.heap, merger.skills),
                                !.skills = <<>>,
                                !.given = <<>>]

MergeNext ==
    \/ MergeCombine /\ UNCHANGED <<vars, extraction, parser, serviceVars>>
    \/ MergeConfidence /\ UNCHANGED <<vars, extraction, parser, serviceVars>>
    \/ MergeRank /\ UNCHANGED <<vars, extraction, parser, serviceVars>>
    \/ MergeAgain /\ UNCHANGED <<vars, extraction, parser, serviceVars>>

MergeSpec == MergeInit /\ [][MergeNext]_allVars

(***************************************************************************)
(* Claims about the Skill Merger, checked under MergeSpec.                 *)
(***************************************************************************)
\* the Skills a run of the merger has given a confidence
Scored == IF merger.pc \in {"scored", "ranked"} THEN Range(merger.skills) ELSE {}

\* C11: every Skill the pipeline returns has a confidence c with
\* 0 <= c <= 95, for every text and every combination of candidates,
\* sources and boosts.
C11_ConfidenceInRange ==
    \A i \in Scored :
        /\ merger.heap[i].confidence >= 0
        /\ merger.heap[i].confidence <= 95

\* a returned Skill whose boosts add up to more than 95 (frequency 20, two
\* sources 20, proficiency 15, skills section 10 on the base of 60)
C11_Witness ==
    /\ merger.pc = "ranked"
    /\ \E i \in Range(merger.skills) :
          /\ merger.heap[i].confidence = 95
          /\ Len(merger.heap[i].sources) >= 2
          /\ Count(Lower(merger.text), Lower(merger.heap[i].name)) >= 4
          /\ InSkillsSection(Lower(merger.text), Lower(merger.heap[i].name))

\* the Skills of a result of combine_skills
Merged == IF merger.pc \in {"combined", "scored", "ranked"} THEN Range(merger.skills) ELSE {}

\* C12: in every result of the merger, any two distinct Skills have
\* lowercased names whose similarity is at most 85, whatever the candidates
\* and their arrival order.
C12_NoNearDuplicates ==
    \A i, j \in Merged :
        i # j => FuzzRatio(Lower(merger.heap[i].name), Lower(merger.heap[j].name)) <= 85

\* "Pythons" and "Pyhon" (similarity 83) both became Skills and "python",
\* which is similar to both, arrived after them and was merged
C12_Witness ==
    /\ merger.pc = "combined"
    /\ Len(merger.skills) = 2
    /\ Len(merger.heap) = 3
    /\ merger.heap[1].name = "Pythons"
    /\ merger.heap[2].name = "Pyhon"
    /\ merger.heap[3].name = "python"
    /\ merger.heap[1].sources = <<"pattern_extracted", "pattern_extracted">>

\* C13: a candidate whose lowercased name has similarity above 85 to an
\* accepted name creates no new Skill; the Skill keeps its first-seen name
\* and its sources are the strategies of the members of its cluster, each
\* strategy counted once.
C13_SourcesCountedOnce ==
    merger.pc = "combined" =>
        /\ \A c \in 1..Len(merger.heap) :
              c \notin Merged =>
                  \E i \in Merged :
                      /\ i < c
                      /\ Similar(Lower(merger.heap[c].name), Lower(merger.heap[i].name))
        /\ \A i \in Merged :
              /\ Range(merger.heap[i].sources) \subseteq
                     {merger.heap[c].type : c \in i..Len(merger.heap)}
              /\ Len(merger.heap[i].sources) = Cardinality(Range(merger.heap[i].sources))

\* C14: running the merger (merge, confidence, ranking) twice on the same
\* candidates in the same order and the same text yields the same list of
\* Skills in the same order with the same sources, confidence and
\* importance scores.  The second run gets the dicts as the first run left
\* them.
C14_SecondRunSame ==
    (merger.pc = "ranked" /\ merger.run = 2) =>
        Snapshot(merger.heap, merger.skills) = merger.first

\* a second run has ended whose result has two Skills, one of them a
\* cluster of several candidates
C14_Witness ==
    /\ merger.pc = "ranked"
    /\ merger.run = 2
    /\ Len(merger.first) = 2
    /\ Len(merger.skills) = 2
    /\ \E i \in Range(merger.skills) : Len(merger.heap[i].sources) = 2

\* where a list holds an item
Position(list, x) == CHOOSE k \in DOMAIN list : list[k] = x

\* C15: the list rank_skills returns is a permutation of its input, in
\* order of non-increasing importance score, and two Skills with equal
\* scores keep the relative order they had before the sort.
C15_RankedStable ==
    merger.pc = "ranked" =>
        LET ranked == merger.skills
            score(k) == merger.heap[ranked[k]].importance_score
        IN  /\ Len(ranked) = Len(merger.given)
            /\ Range(ranked) = Range(merger.given)
            /\ \A a, b \in DOMAIN ranked :
                  a < b =>
                      /\ score(a) >= score(b)
                      /\ score(a) = score(b) =>
                            Position(merger.given, ranked[a]) < Position(merger.given, ranked[b])

\* a list of three was reordered by the sort and two of its Skills tie
C15_Witness ==
    /\ merger.pc = "ranked"
    /\ Len(merger.skills) = 3
    /\ merger.skills # merger.given
    /\ \E a, b \in DOMAIN merger.skills :
          /\ a < b
          /\ merger.heap[merger.skills[a]].importance_score
                 = merger.heap[merger.skills[b]].importance_score

(***************************************************************************)
(* The three generators of SkillExtractor.                                 *)
(***************************************************************************)
\* the character at p exists and is a word character
IsWordAt(s, p) == p >= 1 /\ p <= Len(s) /\ Chr(s, p) \in WordChars

\* \b in front of the character at p
Boundary(s, p) == IsWordAt(s, p - 1) # IsWordAt(s, p)

\* find_skill_in_text: re.search(r'\b' + re.escape(skill.lower()) + r'\b', text)
FindSkillInText(skill, text) ==
    LET pattern == Lower(skill)
    IN  \E i \in 1..Len(text) :
            /\ StartsAt(text, pattern, i)
            /\ Boundary(text, i)
            /\ Boundary(text, i + Len(pattern))

\* lines 96-115: the string of an entry that matches first, the name before
\* the aliases, or "" when none matches
MatchedText(skill_info, text_lower) ==
    IF FindSkillInText(skill_info.name, text_lower) THEN skill_info.name
    ELSE LET found == {a \in DOMAIN skill_info.aliases :
                          FindSkillInText(skill_info.aliases[a], text_lower)}
         IN  IF found = {} THEN "" ELSE skill_info.aliases[Min(found)]

\* the inner loop of extract_rule_based over one group of the database
RECURSIVE RuleBasedOf(_, _, _)
RuleBasedOf(skills_dict, category, text_lower) ==
    IF skills_dict = <<>> THEN <<>>
    ELSE LET skill_info == Head(skills_dict)
             matched == MatchedText(skill_info, text_lower)
             skill == [Candidate(skill_info.name,
                                 IF skill_info.category = "" THEN category
                                 ELSE skill_info.category,
                                 category)
                         EXCEPT !.matched_text = matched]
         IN  (IF matched = "" THEN <<>> ELSE <<skill>>)
                 \o RuleBasedOf(Tail(skills_dict), category, text_lower)

\* extract_rule_based: the groups of lines 91-94
ExtractRuleBased(text, skill_database) ==
    RuleBasedOf(skill_database.technical_skills, "technical", Lower(text))
        \o RuleBasedOf(skill_database.soft_skills, "soft", Lower(text))

\* extract_ml_based: nothing without a model; with one, a dict per class
\* the model predicts with a probability above 0.5
ExtractMlBased(extractor, predicted) ==
    IF ~extractor.model THEN <<>>
    ELSE [k \in DOMAIN predicted |->
             [Candidate(predicted[k], "", "ml_predicted") EXCEPT !.confidence = 1]]

section_keywords == {"skills", "expertise", "competencies", "technologies"}

\* [:\s]* from p on, taken greedily: the first position it does not cover
RECURSIVE SkipRun(_, _)
SkipRun(text, p) ==
    IF p <= Len(text) /\ Chr(text, p) \in ({":"} \cup SpaceChars)
      THEN SkipRun(text, p + 1)
      ELSE p

\* where group 1 starts when a keyword ends in front of p, or 0 when the
\* pattern does not match: behind the run of [:\s]*, or, when the run
\* reaches the end of the text, at the last character of the run that is
\* no line break (the run gives it back to [^\n]+)
GroupStart(text, p) ==
    LET e == SkipRun(text, p)
        given_back == {q \in p..Len(text) : Chr(text, q) # "\n"}
    IN  IF e <= Len(text) THEN e
        ELSE IF given_back = {} THEN 0 ELSE Max(given_back)

\* the position of the first line break from p on, or Len(text) + 1
LineEnd(text, p) ==
    LET at == Find(text, "\n", p)
    IN  IF at = 0 THEN Len(text) + 1 ELSE at

\* [^\n]+(?:\n[^\n]+)* from p on: the first position it does not cover
RECURSIVE BlockEnd(_, _)
BlockEnd(text, p) ==
    LET e == LineEnd(text, p)
    IN  IF e < Len(text) /\ Chr(text, e + 1) # "\n" THEN BlockEnd(text, e + 1) ELSE e

\* re.finditer(skills_section_pattern, text, re.IGNORECASE) from position
\* from on: group 1 of each match
RECURSIVE SkillsSections(_, _)
SkillsSections(text, from) ==
    LET KeywordAt(p) == {kw \in section_keywords : StartsAt(Lower(text), kw, p)}
        starts == {p \in from..Len(text) :
                      \E kw \in KeywordAt(p) : GroupStart(text, p + Len(kw)) # 0}
    IN  IF starts = {} THEN <<>>
        ELSE LET p == Min(starts)
                 kw == CHOOSE kw \in KeywordAt(p) : TRUE
                 g == GroupStart(text, p + Len(kw))
                 e == BlockEnd(text, g)
             IN  <<SubSeq(text, g, e - 1)>> \o SkillsSections(text, e)

\* str.split(sep) / re.split of a class of single characters
RECURSIVE SplitOn(_, _)
SplitOn(s, seps) ==
    LET at == {i \in 1..Len(s) : Chr(s, i) \in seps}
    IN  IF at = {} THEN <<s>>
        ELSE <<SubSeq(s, 1, Min(at) - 1)>> \o SplitOn(Suffix(s, Min(at) + 1), seps)

\* the two bullet characters of the class of line 169, U+2022 and U+00B7,
\* which the strings of this module cannot hold: the texts here write them
\* as * and ^ and hold no * or ^ of their own
Bullet == "*"

MiddleDot == "^"

\* re.split(r'[,;|<U+2022><U+00B7>\n]', skills_text)
Split(s) == SplitOn(s, {",", ";", "|", Bullet, MiddleDot, "\n"})

\* line 173: "Reasonable skill name length"
LengthBelow50(item) == Len(item) < 50

ReasonableLength(item) == 2 < Len(item) /\ Len(item) < 50

\* lines 171-178: the items of reasonable length, stripped
RECURSIVE PatternItems(_)
PatternItems(skill_items) ==
    IF skill_items = <<>> THEN <<>>
    ELSE LET item == Strip(Head(skill_items))
         IN  (IF ReasonableLength(item)
                THEN <<Candidate(item, "", "pattern_extracted")>> ELSE <<>>)
                 \o PatternItems(Tail(skill_items))

RECURSIVE PatternBasedOf(_)
PatternBasedOf(sections) ==
    IF sections = <<>> THEN <<>>
    ELSE PatternItems(Split(Head(sections))) \o PatternBasedOf(Tail(sections))

ExtractPatternBased(text) == PatternBasedOf(SkillsSections(text, 1))

(***************************************************************************)
(* ExtractSpec: one call of SkillExtractor.extract.  The three generators  *)
(* are awaited one after the other in lines 65-71; none of them reads what *)
(* another one wrote, and the specification lets them finish in any order, *)
(* of which the order of the code is one.  predicted is what the trained   *)
(* model answers for the text.                                             *)
(***************************************************************************)
MaxPredicted == 1

ExtractTexts ==
    { "",
      "Experienced Python developer, expert in React, AWS Certified.",
      "PMP certified project manager",
      "Skills: Python, JS; Docker\nTeam lead\n\nHobbies: chess",
      "Technologies:\npython3 | React.js\nleadership skills",
      "SKILLS: Python, Docker; Leadership",
      "Competencies: Go * Rust ^ C | Kotlin\nSwift;  Terraform  ,ab",
      "Expertise: Monitoring and alerting for distributed databases, "
          \o "Design and operation of large data pipelines in Go" }

\* self.model.classes_
ModelClasses == {"Python", "Kubernetes"}

\* what np.where(predictions > 0.5) selects: classes in index order
Predictions ==
    {predicted \in UNION {[1..n -> ModelClasses] : n \in 0..MaxPredicted} :
        \A i, j \in DOMAIN predicted : i < j => predicted[i] # predicted[j]}

Generators == {"rule", "ml", "pattern"}

ExtractInit ==
    /\ InitJobs
    /\ merger = Idle
    /\ parser = Idle
    /\ NoServices
    /\ \E text \in ExtractTexts, predicted \in Predictions :
          /\ skill_extractor.model \/ predicted = <<>>
          /\ extraction = [pc |-> "generators", text |-> text,
                           predicted |-> predicted, finished |-> <<>>,
                           rule |-> <<>>, ml |-> <<>>, pattern |-> <<>>,
                           heap |-> <<>>, skills |-> <<>>]

\* rule_based_skills = await self.extract_rule_based(text)
RunRuleBased ==
    /\ extraction.pc = "generators"
    /\ "rule" \notin Range(extraction.finished)
    /\ extraction' = [extraction EXCEPT
                        !.rule = ExtractRuleBased(extraction.text,
                                                  LoadSkillDatabase),
                        !.finished = Append(@, "rule")]

\* ml_skills = await self.extract_ml_based(text) if self.model else [];
\* the calls into the model may raise, which ends extract
RunMlBased(lib_ok) ==
    /\ extraction.pc = "generators"
    /\ "ml" \notin Range(extraction.finished)
    /\ IF ExtractRaises(skill_extractor, lib_ok)
         THEN extraction' = [extraction EXCEPT !.pc = "raised"]
         ELSE extraction' = [extraction EXCEPT
                               !.ml = ExtractMlBased(skill_extractor,
                                                     extraction.predicted),
                               !.finished = Append(@, "ml")]

\* pattern_skills = await self.extract_pattern_based(text)
RunPatternBased ==
    /\ extraction.pc = "generators"
    /\ "pattern" \notin Range(extraction.finished)
    /\ extraction' = [extraction EXCEPT
                        !.pattern = ExtractPatternBased(extraction.text),
                        !.finished = Append(@, "pattern")]

\* line 74: the lists in the order combine_skills is handed them
CompletionOrder(finished) == finished

ArgumentOrder(finished) == <<"rule", "ml", "pattern">>

\* the lists of a run one after the other
RECURSIVE Chain(_, _)
Chain(lists, order) ==
    IF order = <<>> THEN <<>> ELSE lists[Head(order)] \o Chain(lists, Tail(order))

\* all_skills = self.combine_skills(rule_based_skills, ml_skills, pattern_skills),
\* reached when the three awaits before it have returned
ExtractCombine ==
    /\ extraction.pc = "generators"
    /\ Range(extraction.finished) = Generators
    /\ LET candidates == Chain(extraction, ArgumentOrder(extraction.finished))
           all_skills == CombineSkills(candidates,
                                       [i \in 1..Len(candidates) |-> i], <<>>)
       IN  extraction' = [extraction EXCEPT !.pc = "combined",
                                            !.heap = all_skills.heap,
                                            !.skills = all_skills.skills]

ExtractConfidence ==
    /\ extraction.pc = "combined"
    /\ extraction' = [extraction EXCEPT
                        !.pc = "scored",
                        !.heap = CalculateConfidence(extraction.heap,
                                     extraction.skills, extraction.text)]

\* rank_skills and return ranked_skills
ExtractRank ==
    /\ extraction.pc = "scored"
    /\ LET ranked_skills == RankSkills(extraction.heap, extraction.skills,
                                       LoadSkillDatabase)
       IN  extraction' = [extraction EXCEPT !.pc = "ranked",
                                            !.heap = ranked_skills.heap,
                                            !.skills = ranked_skills.skills]

ExtractNext ==
    \/ RunRuleBased /\ UNCHANGED <<vars, merger, parser, serviceVars>>
    \/ \E lib_ok \in BOOLEAN : RunMlBased(lib_ok) /\ UNCHANGED <<vars, merger, parser, serviceVars>>
    \/ RunPatternBased /\ UNCHANGED <<vars, merger, parser, serviceVars>>
    \/ ExtractCombine /\ UNCHANGED <<vars, merger, parser, serviceVars>>
    \/ ExtractConfidence /\ UNCHANGED <<vars, merger, parser, serviceVars>>
    \/ ExtractRank /\ UNCHANGED <<vars, merger, parser, serviceVars>>

ExtractSpec == ExtractInit /\ [][ExtractNext]_allVars

\* extract as a function of the text, the extractor and the model's answer:
\* lines 65-82 in the order of the code
Extract(text, extractor, predicted) ==
    LET candidates == ExtractRuleBased(text, LoadSkillDatabase)
                          \o ExtractMlBased(extractor, predicted)
                          \o ExtractPatternBased(text)
        all_skills == CombineSkills(candidates, [i \in 1..Len(candidates) |-> i], <<>>)
        ranked_skills == RankSkills(CalculateConfidence(all_skills.heap,
                                                        all_skills.skills, text),
                                    all_skills.skills, LoadSkillDatabase)
    IN  Snapshot(ranked_skills.heap, ranked_skills.skills)

(***************************************************************************)
(* Claims about SkillExtractor.extract, checked under ExtractSpec.         *)
(***************************************************************************)
\* the text holds the name or an alias of an entry of the skill database
\* as a whole word
ContainsTaxonomyTerm(text, skill_database) ==
    \E group \in {skill_database.technical_skills, skill_database.soft_skills,
                  skill_database.certifications} :
        \E skill_info \in Range(group) : MatchedText(skill_info, Lower(text)) # ""

\* C16: without a trained classifier the model-based generator contributes
\* no candidate and raises no error, and extract still returns a non-empty
\* list for any text that contains a known taxonomy term.
C16_DegradesWithoutModel ==
    ~skill_extractor.model =>
        /\ extraction.pc # "raised"
        /\ extraction.pc # "idle" => extraction.ml = <<>>
        /\ ( /\ extraction.pc = "ranked"
             /\ ContainsTaxonomyTerm(extraction.text, LoadSkillDatabase) )
               => extraction.skills # <<>>

\* C20: the merge step of a run starts only after all three generators
\* (rule, model, pattern) have finished, and the merged result is the same
\* for every order in which the three finish: it is what extract yields in
\* the order of the code.
C20_MergeAfterGenerators ==
    /\ extraction.pc \in {"combined", "scored", "ranked"} =>
          /\ Range(extraction.finished) = Generators
          /\ Len(extraction.finished) = 3
    /\ extraction.pc = "ranked" =>
          Snapshot(extraction.heap, extraction.skills)
              = Extract(extraction.text, skill_extractor, extraction.predicted)

\* a run whose generators finished in the reverse of the order of the code,
\* all three with candidates, has returned a Skill that two of them named
C20_Witness ==
    /\ extraction.pc = "ranked"
    /\ extraction.finished = <<"pattern", "ml", "rule">>
    /\ extraction.rule # <<>>
    /\ extraction.ml # <<>>
    /\ extraction.pattern # <<>>
    /\ \E i \in Range(extraction.skills) :
          {"technical", "pattern_extracted"} \subseteq Range(extraction.heap[i].sources)

(***************************************************************************)
(* Claims about failure handling in the background task, checked under     *)
(* Spec.                                                                   *)
(***************************************************************************)
\* C17: a job ends in failed if and only if extraction leaves no usable
\* text or the merge/score stage raises; the failure of an external model
\* call (NER, summarization) only degrades that sub-result and the job
\* still completes.  The jobs that fail in the CVAnalysis constructor are
\* left aside here.
C17_ModelFailureOnlyDegrades ==
    \A j \in UploadIds :
        (task[j].pc = "returned" /\ task[j].raised # "validation") =>
            /\ JobState(j) = "failed" <=> task[j].raised \in {"parse", "skills"}
            /\ task[j].raised = "nlp" => JobState(j) = "completed"

(***************************************************************************)
(* CVParser (app/services/cv_parser.py).                                   *)
(***************************************************************************)
section_headers ==
    << "education", "experience", "skills", "projects",
       "certifications", "publications", "summary", "objective",
       "work experience", "professional experience", "employment",
       "academic background", "technical skills", "achievements" >>

\* s.endswith(suffix)
EndsWith(s, suffix) == StartsAt(s, suffix, Len(s) - Len(suffix) + 1)

\* s.replace(old, new) for single characters old and a string new
RECURSIVE Replace(_, _, _)
Replace(s, old, new) ==
    IF Len(s) = 0 THEN ""
    ELSE IF Len(s) = 1 THEN (IF s = old THEN new ELSE s)
    ELSE LET half == Len(s) \div 2
         IN  Replace(SubSeq(s, 1, half), old, new)
                 \o Replace(Suffix(s, half + 1), old, new)

\* '\n'.join(lines)
RECURSIVE Join(_)
Join(lines) ==
    IF lines = <<>> THEN ""
    ELSE IF Len(lines) = 1 THEN lines[1]
    ELSE lines[1] \o "\n" \o Join(Tail(lines))

\* len(text.split()): the words white space separates
WordCount(text) ==
    Cardinality({i \in 1..Len(text) :
                    /\ Chr(text, i) \notin SpaceChars
                    /\ i = 1 \/ Chr(text, i - 1) \in SpaceChars})

\* the condition of lines 141-143
IsHeader(line_lower, header) ==
    \/ StartsAt(line_lower, header, 1)
    \/ EndsWith(line_lower, header)
    \/ header = Strip(Replace(line_lower, ":", ""))

\* sections[key] = value on a dict held as a sequence of entries in
\* insertion order
SetItem(sections, key, value) ==
    IF \E k \in DOMAIN sections : sections[k].key = key
      THEN [k \in DOMAIN sections |->
               IF sections[k].key = key THEN [key |-> key, value |-> value]
               ELSE sections[k]]
      ELSE Append(sections, [key |-> key, value |-> value])

\* "Save previous section" / "Save last section"
Save(sections, current_section, section_content) ==
    IF section_content # <<>>
      THEN SetItem(sections, current_section, Join(section_content))
      ELSE sections

\* lines 139-152: the loop over the vocabulary ends at the first label the
\* line satisfies the condition for; matching is the places of all of them
LastMatching(matching) == Max(matching)

FirstMatching(matching) == Min(matching)

\* the loop of extract_sections over the lines that are left
RECURSIVE SectionsOf(_, _, _, _)
SectionsOf(lines, sections, current_section, section_content) ==
    IF lines = <<>> THEN Save(sections, current_section, section_content)
    ELSE
      LET line == Head(lines)
          line_lower == Lower(Strip(line))
          matching == {h \in DOMAIN section_headers :
                          IsHeader(line_lower, section_headers[h])}
      IN  IF matching # {}
            THEN SectionsOf(Tail(lines),
                            Save(sections, current_section, section_content),
                            Replace(section_headers[FirstMatching(matching)], " ", "_"),
                            <<>>)
            ELSE SectionsOf(Tail(lines), sections, current_section,
                            IF Strip(line) # "" THEN Append(section_content, line)
                            ELSE section_content)

ExtractSections(text) == SectionsOf(SplitOn(text, {"\n"}), <<>>, "header", <<>>)

(***************************************************************************)
(* The bytes of an upload as the libraries see them.  pages is the PDF the *)
(* bytes hold: per page the text of its text layer and its embedded        *)
(* images, an image being "ok" (pytesseract reads it), "raises" (Pixmap,   *)
(* Image.open or pytesseract raises on it) or "cmyk" (pix.n - pix.alpha is *)
(* 4 or more, so it is passed over).  pypdf2_ok and fitz_ok: PdfReader and *)
(* fitz.open accept the bytes.  docx_ok: docx2txt.process reads the bytes  *)
(* (they are a .docx archive), its result being docx_text.  chunks is the  *)
(* byte string as runs of valid UTF-8 and single invalid bytes.            *)
(***************************************************************************)
MaxPages == 2

\* what pytesseract reads off an image
OcrText == "Git"

PageTexts == {"", "Skills\nPython"}

PageImages ==
    { <<>>, <<"ok">>, <<"raises">>, <<"raises", "ok">>, <<"ok", "raises">>,
      <<"cmyk", "ok">> }

Pages == [text : PageTexts, images : PageImages]

Valid(text) == [valid |-> TRUE, text |-> text]

InvalidByte == [valid |-> FALSE, text |-> ""]

PdfContents ==
    [ pages : UNION {[1..n -> Pages] : n \in 0..MaxPages},
      pypdf2_ok : BOOLEAN, fitz_ok : BOOLEAN,
      docx_ok : {FALSE}, docx_text : {""}, chunks : {<<InvalidByte>>} ]

WordContents ==
    [ pages : {<<>>}, pypdf2_ok : {FALSE}, fitz_ok : {FALSE},
      docx_ok : {TRUE}, docx_text : {"Summary\nEngineer\n\nSkills\nReact"},
      chunks : {<<InvalidByte>>} ]
    \cup
    \* a Word 97 .doc or a damaged archive
    [ pages : {<<>>}, pypdf2_ok : {FALSE}, fitz_ok : {FALSE},
      docx_ok : {FALSE}, docx_text : {""}, chunks : {<<InvalidByte>>} ]

TextContents ==
    [ pages : {<<>>}, pypdf2_ok : {FALSE}, fitz_ok : {FALSE},
      docx_ok : {FALSE}, docx_text : {""},
      chunks : { <<>>,
                 <<Valid("Education\nMIT")>>,
                 <<Valid("Jo\nWork Experience\nAcme\nTechnical Skills\nGo\n"
                             \o "Technical Skills:\nRust")>>,
                 <<Valid("Skills\nPython\nEducation\nMIT\nSkills\nReact")>>,
                 <<Valid("Skills: "), InvalidByte, Valid("Python\n")>> } ]

\* the uploads handed to parse: file names as filename.split('.') cuts them
ParseFiles ==
    [file_name : {<<"cv", "pdf">>}, content : PdfContents]
    \cup [file_name : {<<"CV", "PDF">>, <<"cv", "docx">>, <<"cv", "doc">>,
                       <<"cv", "DocX">>, <<"cv", "txt">>, <<"cv", "TXT">>,
                       <<"cv", "rtf">>, <<"cv", "tar", "gz">>, <<"cv">>,
                       <<"pdf">>},
          content : WordContents \cup TextContents]

\* content.decode('utf-8', errors='ignore')
RECURSIVE Decode(_)
Decode(chunks) ==
    IF chunks = <<>> THEN ""
    ELSE (IF Head(chunks).valid THEN Head(chunks).text ELSE "") \o Decode(Tail(chunks))

\* the dict every parse_* method returns
Parsed(text, metadata) ==
    [text |-> text, sections |-> ExtractSections(text), metadata |-> metadata,
     length |-> Len(text), word_count |-> WordCount(text)]

\* parse_pdf, method 1 (lines 43-56): what PyPDF2 adds to text and metadata;
\* the document information it copies into metadata is left out
PyPdf2Text(pages) ==
    IF pages = <<>> THEN "" ELSE Join([p \in DOMAIN pages |-> pages[p].text]) \o "\n"

\* lines 67-77: OCR of the images of a page from image img on; ocr is the
\* images the loop has come to.  An image that raises ends the loop, the
\* exception travelling on
RECURSIVE OcrImages(_, _, _, _)
OcrImages(images, img, text, ocr) ==
    IF img > Len(images) THEN [text |-> text, ocr |-> ocr, raised |-> FALSE]
    ELSE IF images[img] = "raises"
      THEN [text |-> text, ocr |-> ocr \cup {img}, raised |-> TRUE]
    ELSE IF images[img] = "cmyk"
      THEN OcrImages(images, img + 1, text, ocr \cup {img})
    ELSE OcrImages(images, img + 1, text \o OcrText \o "\n", ocr \cup {img})

\* lines 62-77: the loop over the pages from page_num on; read is the
\* pages whose text was taken, ocr the images the OCR loop has come to, as
\* <<page, image>>
RECURSIVE MuPages(_, _, _, _, _)
MuPages(pages, page_num, text, read, ocr) ==
    IF page_num > Len(pages)
      THEN [text |-> text, read |-> read, ocr |-> ocr, raised |-> FALSE]
    ELSE
      LET page == pages[page_num]
          with_page == text \o page.text \o "\n"
      IN  IF page.images # <<>> /\ Strip(with_page) = ""
            THEN LET done == OcrImages(page.images, 1, with_page, {})
                     seen == ocr \cup {<<page_num, i>> : i \in done.ocr}
                 IN  IF done.raised
                       THEN [text |-> done.text, read |-> read \cup {page_num},
                             ocr |-> seen, raised |-> TRUE]
                       ELSE MuPages(pages, page_num + 1, done.text,
                                    read \cup {page_num}, seen)
            ELSE MuPages(pages, page_num + 1, with_page, read \cup {page_num}, ocr)

(***************************************************************************)
(* ParseSpec: one call of CVParser.parse, through the method it picks.     *)
(***************************************************************************)
NoParsed ==
    [text |-> "", sections |-> <<>>, metadata |-> <<>>, length |-> 0, word_count |-> 0]

\* the parser is apart from the skill extractor: the runs without a model
ParseInit ==
    /\ InitJobs
    /\ ~skill_extractor.model
    /\ merger = Idle
    /\ extraction = Idle
    /\ NoServices
    /\ \E file \in ParseFiles :
          parser = [pc |-> "called", file |-> file, text |-> "", metadata |-> <<>>,
                    read |-> {}, ocr |-> {}, printed |-> {}, raised |-> "",
                    result |-> NoParsed]

\* parse, lines 24-33
Parse ==
    /\ parser.pc = "called"
    /\ LET file_extension == FileExtension(parser.file.file_name)
       IN  parser' =
             IF file_extension = "pdf" THEN [parser EXCEPT !.pc = "parse_pdf"]
             ELSE IF file_extension \in {"doc", "docx"}
               THEN [parser EXCEPT !.pc = "parse_docx"]
             ELSE IF file_extension \in {"txt"}
               THEN [parser EXCEPT !.pc = "parse_text"]
             ELSE [parser EXCEPT !.pc = "raised", !.raised = "ValueError"]

\* parse_pdf, method 1 (lines 39-56)
ParsePdfPyPDF2 ==
    /\ parser.pc = "parse_pdf"
    /\ LET content == parser.file.content
       IN  parser' =
             IF content.pypdf2_ok
               THEN [parser EXCEPT !.pc = "parse_pdf_2",
                                   !.text = PyPdf2Text(content.pages),
                                   !.metadata = <<[key |-> "pages",
                                                   value |-> Len(content.pages)]>>]
               ELSE [parser EXCEPT !.pc = "parse_pdf_2",
                                   !.printed = @ \cup {"PyPDF2 extraction failed"}]

\* parse_pdf, method 2 (lines 58-82): one try around the loop over the
\* pages and its OCR loop
ParsePdfPyMuPDF ==
    /\ parser.pc = "parse_pdf_2"
    /\ LET content == parser.file.content
           done == MuPages(content.pages, 1, parser.text, {}, {})
       IN  parser' =
             IF ~content.fitz_ok
               THEN [parser EXCEPT !.pc = "parse_pdf_3",
                                   !.printed = @ \cup {"PyMuPDF extraction failed"}]
               ELSE [parser EXCEPT !.pc = "parse_pdf_3",
                                   !.text = done.text,
                                   !.read = done.read,
                                   !.ocr = done.ocr,
                                   !.printed = IF done.raised
                                                 THEN @ \cup {"PyMuPDF extraction failed"}
                                                 ELSE @]

\* parse_pdf, lines 84-93
ParsePdfReturn ==
    /\ parser.pc = "parse_pdf_3"
    /\ parser' = [parser EXCEPT !.pc = "returned",
                                !.result = Parsed(parser.text, parser.metadata)]

\* parse_docx: docx2txt.process is not guarded
ParseDocx ==
    /\ parser.pc = "parse_docx"
    /\ LET content == parser.file.content
       IN  parser' =
             IF content.docx_ok
               THEN [parser EXCEPT !.pc = "returned",
                                   !.text = content.docx_text,
                                   !.result = Parsed(content.docx_text, <<>>)]
               ELSE [parser EXCEPT !.pc = "raised", !.raised = "docx2txt"]

\* parse_text
ParseText ==
    /\ parser.pc = "parse_text"
    /\ LET text == Decode(parser.file.content.chunks)
       IN  parser' = [parser EXCEPT !.pc = "returned",
                                    !.text = text,
                                    !.result = Parsed(text, <<>>)]

ParseNext ==
    \/ Parse /\ UNCHANGED <<vars, merger, extraction, serviceVars>>
    \/ ParsePdfPyPDF2 /\ UNCHANGED <<vars, merger, extraction, serviceVars>>
    \/ ParsePdfPyMuPDF /\ UNCHANGED <<vars, merger, extraction, serviceVars>>
    \/ ParsePdfReturn /\ UNCHANGED <<vars, merger, extraction, serviceVars>>
    \/ ParseDocx /\ UNCHANGED <<vars, merger, extraction, serviceVars>>
    \/ ParseText /\ UNCHANGED <<vars, merger, extraction, serviceVars>>

ParseSpec == ParseInit /\ [][ParseNext]_allVars

(***************************************************************************)
(* Claims about CVParser, checked under ParseSpec.                         *)
(***************************************************************************)
\* C18: in the PDF path an OCR failure on one embedded image is skipped:
\* the images after it on the same page and all later pages are still
\* processed, and the text extracted before the failure is kept.
C18_OcrFailureSkipped ==
    LET content == parser.file.content
    IN  (parser.pc = "returned" /\ parser.read # {}) =>
            /\ parser.read = DOMAIN content.pages
            /\ \A at \in parser.ocr :
                  \A img \in 1..Len(content.pages[at[1]].images) :
                      <<at[1], img>> \in parser.ocr
            /\ content.pypdf2_ok =>
                  StartsAt(parser.result.text, PyPdf2Text(content.pages), 1)

\* C19: parse returns a document (text, metadata, word_count) for a file
\* whose extension is, in any case, pdf, doc, docx or txt, and fails as
\* unsupported, producing no document, for every other extension.
C19_ParseByExtension ==
    parser.pc \in {"returned", "raised"} =>
        IF FileExtension(parser.file.file_name) \in ParserExtensions
          THEN /\ parser.pc = "returned"
               /\ parser.result.text = parser.text
               /\ parser.result.word_count = WordCount(parser.text)
          ELSE /\ parser.pc = "raised"
               /\ parser.raised = "ValueError"
               /\ parser.result = NoParsed

(***************************************************************************)
(* Claims about the generators, checked under ExtractSpec.                 *)
(***************************************************************************)
\* the entries of the skill database, whatever their group
TaxonomyEntries(skill_database) ==
    Range(skill_database.technical_skills)
        \cup Range(skill_database.soft_skills)
        \cup Range(skill_database.certifications)

\* C21: the rule-based generator considers every taxonomy entry (technical
\* skills, soft skills and certifications alike): an entry yields exactly
\* one candidate when its canonical name or one of its aliases occurs in
\* the text as a whole word, case-insensitively, and none otherwise; the
\* name is tried before the aliases and the candidate records the string
\* that matched first.
C21_RuleBasedEveryEntry ==
    (extraction.pc # "idle" /\ "rule" \in Range(extraction.finished)) =>
        \A skill_info \in TaxonomyEntries(LoadSkillDatabase) :
            LET found == {k \in DOMAIN extraction.rule :
                              extraction.rule[k].name = skill_info.name}
                text_lower == Lower(extraction.text)
                by_name == FindSkillInText(skill_info.name, text_lower)
                by_alias == {a \in DOMAIN skill_info.aliases :
                                FindSkillInText(skill_info.aliases[a], text_lower)}
            IN  IF by_name
                  THEN /\ Cardinality(found) = 1
                       /\ \A k \in found :
                             extraction.rule[k].matched_text = skill_info.name
                ELSE IF by_alias # {}
                  THEN /\ Cardinality(found) = 1
                       /\ \A k \in found :
                             extraction.rule[k].matched_text
                                 = skill_info.aliases[Min(by_alias)]
                ELSE found = {}

(***************************************************************************)
(* Claims about the scores of the Skill Merger, checked under MergeSpec.   *)
(***************************************************************************)
\* a proficiency qualifier stands next to the name, in either order
ProficiencyAdjacent(text_lower, skill_lower) ==
    \E term \in proficiency_terms :
        \/ Contains(text_lower, term \o " " \o skill_lower)
        \/ Contains(text_lower, skill_lower \o " " \o term)

\* C22: the confidence of each merged Skill equals min(95, 60 + min(5 x
\* occurrences of the name in the text, 20) + 10 x (number of distinct
\* contributing source strategies) + 15 if a proficiency qualifier is
\* adjacent to the name in either order + 10 if the name appears within a
\* recognized skills section).
C22_ConfidenceFormula ==
    \A i \in Scored :
        LET skill == merger.heap[i]
            text_lower == Lower(merger.text)
            skill_lower == Lower(skill.name)
        IN  skill.confidence =
              Min({95,
                   60 + Min({5 * Count(text_lower, skill_lower), 20})
                      + 10 * Cardinality(Range(skill.sources))
                      + (IF ProficiencyAdjacent(text_lower, skill_lower)
                           THEN 15 ELSE 0)
                      + (IF InSkillsSection(text_lower, skill_lower)
                           THEN 10 ELSE 0)})

\* C23: the importance score of a Skill equals its confidence, multiplied
\* by 1.2 when its category is programming, web, data or ai, plus 5 x the
\* taxonomy importance weight whenever the Skill's name is a canonical
\* entry of the taxonomy (of any taxonomy group), and nothing is added
\* otherwise.  Scores are in tenths.
C23_ImportanceFormula ==
    merger.pc = "ranked" =>
        \A i \in Range(merger.skills) :
            LET skill == merger.heap[i]
                entry == {e \in TaxonomyEntries(LoadSkillDatabase) :
                              e.name = skill.name}
                boosted == IF skill.category \in {"programming", "web", "data", "ai"}
                             THEN skill.confidence * 12
                             ELSE skill.confidence * 10
            IN  skill.importance_score =
                  boosted + (IF entry = {} THEN 0
                             ELSE (CHOOSE e \in entry : TRUE).importance * 5 * 10)

\* the delimiters of the pattern-based generator
Delimiters == {",", ";", "|", Bullet, MiddleDot, "\n"}

\* the tokens the delimiters cut a block into, in order
Tokens(block) ==
    LET cuts == {0, Len(block) + 1}
                    \cup {i \in 1..Len(block) : Chr(block, i) \in Delimiters}
        after(i) == Min({j \in cuts : j > i})
        starts == cuts \ {Len(block) + 1}
        nth(k) == CHOOSE i \in starts : Cardinality({j \in starts : j < i}) = k - 1
    IN  [k \in 1..Cardinality(starts) |->
            SubSeq(block, nth(k) + 1, after(nth(k)) - 1)]

\* the trimmed tokens of the blocks that are 3 to 49 characters long
RECURSIVE KeptTokens(_)
KeptTokens(blocks) ==
    IF blocks = <<>> THEN <<>>
    ELSE LET tokens == Tokens(Head(blocks))
             trimmed == [k \in DOMAIN tokens |-> Strip(tokens[k])]
             Kept(token) == Len(token) >= 3 /\ Len(token) <= 49
         IN  SelectSeq(trimmed, Kept) \o KeptTokens(Tail(blocks))

\* C24: the pattern-based generator splits each block that follows a
\* skills/expertise/competencies/technologies label on comma, semicolon,
\* pipe, bullet and newline and emits a candidate for exactly those trimmed
\* tokens whose length is between 3 and 49 characters inclusive; so
\* "SKILLS: Python, Docker; Leadership" yields exactly Python, Docker and
\* Leadership.
C24_PatternTokens ==
    (extraction.pc # "idle" /\ "pattern" \in Range(extraction.finished)) =>
        LET names == [k \in DOMAIN extraction.pattern |-> extraction.pattern[k].name]
        IN  /\ names = KeptTokens(SkillsSections(extraction.text, 1))
            /\ \A k \in DOMAIN extraction.pattern :
                  extraction.pattern[k].type = "pattern_extracted"
            /\ extraction.text = "SKILLS: Python, Docker; Leadership"
                  => names = <<"Python", "Docker", "Leadership">>

\* the generator has run on a block with every kind of delimiter and with
\* tokens of 1 and 2 characters, which it left out
C24_Witness ==
    /\ extraction.pc # "idle"
    /\ "pattern" \in Range(extraction.finished)
    /\ \A d \in {Bullet, MiddleDot, "|", "\n", ";", ","} : Contains(extraction.text, d)
    /\ Contains(extraction.text, " C ")
    /\ [k \in DOMAIN extraction.pattern |-> extraction.pattern[k].name]
           = <<"Rust", "Kotlin", "Swift", "Terraform">>

(***************************************************************************)
(* Claims about extract_sections and the OCR fallback, checked under       *)
(* ParseSpec.                                                              *)
(***************************************************************************)
\* the labels of the vocabulary a line satisfies the header condition for,
\* as their places in the vocabulary
LabelsOf(line) ==
    {h \in DOMAIN section_headers : IsHeader(Lower(Strip(line)), section_headers[h])}

\* per line, the key of a header line when the first label in vocabulary
\* order wins, and "" for a line that is no header
FirstKeys(lines) ==
    [k \in DOMAIN lines |->
        LET labels == LabelsOf(lines[k])
        IN  IF labels = {} THEN ""
            ELSE Replace(section_headers[Min(labels)], " ", "_")]

\* the section a line is in: the one whose header most recently preceded
\* it, or the implicit header section
SectionOfLine(keys, k) ==
    LET before == {h \in 1..(k - 1) : keys[h] # ""}
    IN  IF before = {} THEN "header" ELSE keys[Max(before)]

\* the body lines of a section: its lines that are neither blank nor a
\* header, in the order of the text
BodyLines(lines, keys, key) ==
    LET Body(k) == /\ keys[k] = ""
                   /\ Strip(lines[k]) # ""
                   /\ SectionOfLine(keys, k) = key
        at == SelectSeq([k \in 1..Len(lines) |-> k], Body)
    IN  [n \in DOMAIN at |-> lines[at[n]]]

\* C25: extract_sections loses no body line: every non-blank line that is
\* not a header appears exactly once in the output, in the body of the
\* section whose header most recently preceded it (or in 'header' when none
\* did), with line order preserved; when the same section label occurs more
\* than once, its bodies are concatenated under the one key.
C25_NoBodyLineLost ==
    parser.pc = "returned" =>
        LET sections == parser.result.sections
            lines == SplitOn(parser.result.text, {"\n"})
            keys == FirstKeys(lines)
            in_use == {SectionOfLine(keys, k) : k \in 1..Len(lines)}
        IN  /\ \A a, b \in DOMAIN sections :
                  sections[a].key = sections[b].key => a = b
            /\ {sections[k].key : k \in DOMAIN sections}
                   = {key \in in_use : BodyLines(lines, keys, key) # <<>>}
            /\ \A k \in DOMAIN sections :
                  sections[k].value = Join(BodyLines(lines, keys, sections[k].key))

\* C26: when a line satisfies the header condition (starts with, ends with,
\* or equals after trimming colons) for several labels of the vocabulary,
\* the section key becomes the first such label in vocabulary order with
\* spaces replaced by underscores; e.g. a line such as "Technical Skills"
\* or "Work Experience" is keyed by the earlier label it also matches.
C26_FirstLabelWins ==
    parser.pc = "returned" =>
        LET sections == parser.result.sections
            lines == SplitOn(parser.result.text, {"\n"})
            keys == FirstKeys(lines)
            headers == {k \in 1..Len(lines) : keys[k] # ""}
            first_keys == {keys[k] : k \in headers}
            once == {key \in first_keys :
                        Cardinality({k \in headers : keys[k] = key}) = 1}
            saved == {sections[n].key : n \in DOMAIN sections}
        IN  /\ saved \subseteq {"header"} \cup first_keys
            /\ \A key \in first_keys :
                  BodyLines(lines, keys, key) # <<>> => key \in saved
            /\ \A n \in DOMAIN sections :
                  sections[n].key \in once
                      => sections[n].value
                             = Join(BodyLines(lines, keys, sections[n].key))

\* "Work Experience" and "Technical Skills", which satisfy the condition
\* for two labels each, were keyed experience and skills, and "Technical
\* Skills:", which satisfies it for one, technical_skills
C26_Witness ==
    /\ parser.pc = "returned"
    /\ Contains(parser.result.text, "Work Experience\nAcme\nTechnical Skills\nGo\n")
    /\ parser.result.sections =
          << [key |-> "header", value |-> "Jo"],
             [key |-> "experience", value |-> "Acme"],
             [key |-> "skills", value |-> "Go"],
             [key |-> "technical_skills", value |-> "Rust"] >>

\* C27: in the PDF path OCR runs only when the text extracted from the
\* whole document is empty or whitespace and the document contains embedded
\* images; whenever the document yields any extractable text on any page,
\* no OCR text is appended, and the DOCX and plain-text paths never run
\* OCR.
C27_OcrOnlyForEmptyDocument ==
    LET pages == parser.file.content.pages
    IN  parser.pc # "idle" =>
            /\ parser.ocr # {} =>
                  /\ FileExtension(parser.file.file_name) = "pdf"
                  /\ \A p \in DOMAIN pages : Strip(pages[p].text) = ""
                  /\ \E p \in DOMAIN pages : pages[p].images # <<>>
            /\ (\E p \in DOMAIN pages : Strip(pages[p].text) # "")
                  => ~Contains(parser.text, OcrText)

(***************************************************************************)
(* A claim about combine_skills, checked under MergeSpec.                  *)
(***************************************************************************)
\* the entries of the sources lists of the Skills of a list, all together
RECURSIVE SourceEntries(_, _)
SourceEntries(heap, skills) ==
    IF skills = <<>> THEN 0
    ELSE Len(heap[Head(skills)].sources) + SourceEntries(heap, Tail(skills))

\* C28: combine_skills never drops a candidate: the number of Skills it
\* returns is at most the number of input candidates, and the total number
\* of entries in the sources lists of all returned Skills equals the number
\* of input candidates (each candidate contributes exactly one source entry
\* to exactly one Skill).
C28_NoCandidateDropped ==
    merger.pc = "combined" =>
        /\ Len(merger.skills) <= Len(merger.heap)
        /\ SourceEntries(merger.heap, merger.skills) = Len(merger.heap)
        /\ \A a, b \in DOMAIN merger.skills :
              merger.skills[a] = merger.skills[b] => a = b

\* three candidates became two Skills, one of them a cluster of two
C28_Witness ==
    /\ merger.pc = "combined"
    /\ Len(merger.heap) = 3
    /\ Len(merger.skills) = 2
    /\ \E i \in Range(merger.skills) : Len(merger.heap[i].sources) = 2
    /\ \E i \in Range(merger.skills) : Len(merger.heap[i].sources) = 1

(***************************************************************************)
(* AppointmentSpec: AppointmentService (app/services/appointment_service.py)*)
(* behind POST /slots/{slot_id}/book (app/api/v1/appointments.py).         *)
(* appointment_slots and bookings are the two Firestore collections the    *)
(* service writes; of a slot document the fields isBooked and studentId     *)
(* are kept, of a booking slot_id, student_id and status (topic,           *)
(* description and the time stamps, which no code reads back, are left     *)
(* out).  Each call to Firestore is a step of its own: the requests of     *)
(* several workers interleave between the calls.                           *)
(***************************************************************************)
MaxRequests == 2

RequestIds == 1..MaxRequests

\* the ids uuid4 gives to slots
SlotIds == {"slot-a", "slot-b"}

StudentIds == {"ana", "ben"}

\* a document the collection does not hold
NoSlot == [exists |-> FALSE, isBooked |-> FALSE, studentId |-> ""]

\* create_slot, lines 42-51: slot_data
SlotData == [exists |-> TRUE, isBooked |-> FALSE, studentId |-> ""]

NoRequest == [pc |-> "none", slot_id |-> "", student_id |-> ""]

AppointmentInit ==
    /\ InitJobs
    /\ ~skill_extractor.model
    /\ merger = Idle
    /\ extraction = Idle
    /\ parser = Idle
    /\ websocket_manager = Idle
    /\ appointment_service =
          [pc |-> "serving",
           appointment_slots |-> [slot_id \in SlotIds |-> NoSlot],
           bookings |-> <<>>,
           requests |-> [r \in RequestIds |-> NoRequest]]

\* create_slot: a document under a fresh id
CreateSlot(slot_id) ==
    /\ appointment_service.pc = "serving"
    /\ ~appointment_service.appointment_slots[slot_id].exists
    /\ appointment_service' =
          [appointment_service EXCEPT !.appointment_slots[slot_id] = SlotData]

\* book_slot, lines 97-106, for request r: slot_ref.update(...), which
\* raises NotFound when the collection has no such document
BookSlotUpdate(r, slot_id, student_id) ==
    /\ appointment_service.pc = "serving"
    /\ appointment_service.requests[r].pc = "none"
    /\ IF appointment_service.appointment_slots[slot_id].exists
         THEN appointment_service' =
                [appointment_service EXCEPT
                    !.appointment_slots[slot_id].isBooked = TRUE,
                    !.appointment_slots[slot_id].studentId = student_id,
                    !.requests[r] = [pc |-> "updated", slot_id |-> slot_id,
                                     student_id |-> student_id]]
         ELSE appointment_service' =
                [appointment_service EXCEPT
                    !.requests[r] = [pc |-> "raised", slot_id |-> slot_id,
                                     student_id |-> student_id]]

\* book_slot, lines 108-123, and the rest of the handler: the booking
\* record is added and the response "Slot booked successfully" is sent
BookSlotAdd(r) ==
    /\ appointment_service.pc = "serving"
    /\ appointment_service.requests[r].pc = "updated"
    /\ appointment_service' =
          [appointment_service EXCEPT
              !.bookings = Append(@, [slot_id |-> appointment_service.requests[r].slot_id,
                                      student_id |-> appointment_service.requests[r].student_id,
                                      status |-> "confirmed"]),
              !.requests[r].pc = "returned"]

AppointmentNext ==
    \/ \E slot_id \in SlotIds :
          CreateSlot(slot_id) /\ UNCHANGED <<vars, merger, extraction, parser, websocket_manager>>
    \/ \E r \in RequestIds, slot_id \in SlotIds, student_id \in StudentIds :
          BookSlotUpdate(r, slot_id, student_id)
              /\ UNCHANGED <<vars, merger, extraction, parser, websocket_manager>>
    \/ \E r \in RequestIds :
          BookSlotAdd(r) /\ UNCHANGED <<vars, merger, extraction, parser, websocket_manager>>

AppointmentSpec == AppointmentInit /\ [][AppointmentNext]_allVars

\* the confirmed bookings of a slot
ConfirmedBookings(slot_id) ==
    {b \in DOMAIN appointment_service.bookings :
        /\ appointment_service.bookings[b].slot_id = slot_id
        /\ appointment_service.bookings[b].status = "confirmed"}

\* C29: a slot is booked by at most one student: book_slot on a slot whose
\* isBooked is already true leaves the slot's studentId unchanged and
\* creates no second confirmed booking, under any interleaving of two
\* booking requests for the same slot.
C29_SlotBookedOnce ==
    /\ [](\A slot_id \in SlotIds : Cardinality(ConfirmedBookings(slot_id)) <= 1)
    /\ [][\A slot_id \in SlotIds :
             appointment_service.appointment_slots[slot_id].isBooked =>
                 appointment_service'.appointment_slots[slot_id].studentId
                     = appointment_service.appointment_slots[slot_id].studentId
         ]_allVars

(***************************************************************************)
(* WebSocketSpec: WebSocketManager (app/services/websocket_manager.py).    *)
(* active_connections and typing_users are its two dicts.  A call runs to  *)
(* its first await that hands control to other calls: send_message waits   *)
(* in websocket.send_json, and sending holds the users such a call waits   *)
(* for (one call per user at a time).  call is the call that acted last,   *)
(* its name (send_failed being a send_message whose send_json raised), its *)
(* user and the conversations it took the user out of; raised tells        *)
(* whether it raised.                                                      *)
(***************************************************************************)
MaxUsers == 2

UserIds == 1..MaxUsers

ConversationIds == {"c1", "c2"}

\* the WebSocket objects of the endpoint; the manager stores them and reads
\* nothing off them, so one value stands for all of them
WebSockets == {"ws"}

\* the dict has no such key
NoWebSocket == ""

NoTyping == [present |-> FALSE, users |-> {}]

NoCall == [op |-> "none", user_id |-> 0, removed |-> {}]

Call(op, user_id) == [op |-> op, user_id |-> user_id, removed |-> {}]

WebSocketInit ==
    /\ InitJobs
    /\ ~skill_extractor.model
    /\ merger = Idle
    /\ extraction = Idle
    /\ parser = Idle
    /\ appointment_service = Idle
    /\ websocket_manager =
          [pc |-> "serving",
           active_connections |-> [user_id \in UserIds |-> NoWebSocket],
           typing_users |-> [conv_id \in ConversationIds |-> NoTyping],
           sending |-> {},
           call |-> NoCall,
           raised |-> FALSE]

\* is_typing
IsTyping(typing_users, user_id, conversation_id) ==
    /\ typing_users[conversation_id].present
    /\ user_id \in typing_users[conversation_id].users

\* the conversations whose set holds the user
TypingIn(typing_users, user_id) ==
    {conv_id \in ConversationIds : IsTyping(typing_users, user_id, conv_id)}

\* disconnect, lines 23-28: "Clean up typing status"
KeepTyping(typing_users, user_id) == typing_users

RemoveTyping(typing_users, user_id) ==
    [conv_id \in ConversationIds |->
        IF IsTyping(typing_users, user_id, conv_id)
          THEN IF typing_users[conv_id].users = {user_id}
                 THEN NoTyping
                 ELSE [typing_users[conv_id] EXCEPT !.users = @ \ {user_id}]
          ELSE typing_users[conv_id]]

\* disconnect
Disconnect(manager, user_id) ==
    [manager EXCEPT
        !.active_connections[user_id] = NoWebSocket,
        !.typing_users = RemoveTyping(manager.typing_users, user_id)]

\* connect: websocket.accept() may raise, and then nothing is stored
ConnectCall(user_id, websocket, accepted) ==
    /\ websocket_manager.pc = "serving"
    /\ websocket_manager' =
          IF accepted
            THEN [websocket_manager EXCEPT
                     !.active_connections[user_id] = websocket,
                     !.call = Call("connect", user_id),
                     !.raised = FALSE]
            ELSE [websocket_manager EXCEPT
                     !.call = Call("connect", user_id),
                     !.raised = TRUE]

DisconnectCall(user_id) ==
    /\ websocket_manager.pc = "serving"
    /\ websocket_manager' =
          [Disconnect(websocket_manager, user_id) EXCEPT
              !.call = [op |-> "disconnect", user_id |-> user_id,
                        removed |-> TypingIn(websocket_manager.typing_users, user_id)],
              !.raised = FALSE]

\* send_message up to its await: without a connection it returns, with one
\* it waits in send_json on it
SendMessage(user_id) ==
    /\ websocket_manager.pc = "serving"
    /\ user_id \notin websocket_manager.sending
    /\ websocket_manager' =
          [websocket_manager EXCEPT
              !.sending = IF websocket_manager.active_connections[user_id] # NoWebSocket
                            THEN @ \cup {user_id} ELSE @,
              !.call = Call("send_message", user_id),
              !.raised = FALSE]

\* send_message from its await on: send_json returns, or it raises and the
\* bare except calls disconnect
SendJson(user_id, sent) ==
    /\ websocket_manager.pc = "serving"
    /\ user_id \in websocket_manager.sending
    /\ websocket_manager' =
          IF sent
            THEN [websocket_manager EXCEPT
                     !.sending = @ \ {user_id},
                     !.call = Call("send_json", user_id),
                     !.raised = FALSE]
            ELSE [Disconnect(websocket_manager, user_id) EXCEPT
                     !.sending = @ \ {user_id},
                     !.call = [op |-> "send_failed", user_id |-> user_id,
                               removed |-> TypingIn(websocket_manager.typing_users,
                                                    user_id)],
                     !.raised = FALSE]

\* broadcast_typing, lines 41-47
SetTyping(typing_users, user_id, conversation_id, is_typing) ==
    IF is_typing
      THEN [typing_users EXCEPT
               ![conversation_id] = [present |-> TRUE, users |-> @.users \cup {user_id}]]
      ELSE IF typing_users[conversation_id].present
        THEN [typing_users EXCEPT ![conversation_id].users = @ \ {user_id}]
        ELSE typing_users

\* broadcast_typing: the sets are changed before the first await; a
\* send_json to one of the other users may raise, which nothing catches
BroadcastTyping(user_id, conversation_id, is_typing, sent) ==
    /\ websocket_manager.pc = "serving"
    /\ sent \/ \E uid \in UserIds \ {user_id} :
                  websocket_manager.active_connections[uid] # NoWebSocket
    /\ websocket_manager' =
          [websocket_manager EXCEPT
              !.typing_users = SetTyping(@, user_id, conversation_id, is_typing),
              !.call = Call("broadcast_typing", user_id),
              !.raised = ~sent]

WebSocketNext ==
    \/ \E user_id \in UserIds, websocket \in WebSockets, accepted \in BOOLEAN :
          ConnectCall(user_id, websocket, accepted)
              /\ UNCHANGED <<vars, merger, extraction, parser, appointment_service>>
    \/ \E user_id \in UserIds :
          DisconnectCall(user_id)
              /\ UNCHANGED <<vars, merger, extraction, parser, appointment_service>>
    \/ \E user_id \in UserIds :
          SendMessage(user_id)
              /\ UNCHANGED <<vars, merger, extraction, parser, appointment_service>>
    \/ \E user_id \in UserIds, sent \in BOOLEAN :
          SendJson(user_id, sent)
              /\ UNCHANGED <<vars, merger, extraction, parser, appointment_service>>
    \/ \E user_id \in UserIds, conversation_id \in ConversationIds,
          is_typing \in BOOLEAN, sent \in BOOLEAN :
          BroadcastTyping(user_id, conversation_id, is_typing, sent)
              /\ UNCHANGED <<vars, merger, extraction, parser, appointment_service>>

WebSocketSpec == WebSocketInit /\ [][WebSocketNext]_allVars

\* C30: after any sequence of connect, broadcast_typing, send_message and
\* disconnect calls on WebSocketManager, disconnect(u) leaves u with no
\* active connection and in no conversation's typing set, and changes
\* neither the connection nor the typing entries of any other user; a
\* send_message to u whose send fails has the same effect as disconnect(u)
\* and raises nothing.
C30_DisconnectFrame ==
    [][\A u \in UserIds :
          (DisconnectCall(u) \/ SendJson(u, FALSE)) =>
              /\ websocket_manager'.active_connections[u] = NoWebSocket
              /\ \A c \in ConversationIds :
                    ~IsTyping(websocket_manager'.typing_users, u, c)
              /\ \A v \in UserIds \ {u} :
                    /\ websocket_manager'.active_connections[v]
                           = websocket_manager.active_connections[v]
                    /\ \A c \in ConversationIds :
                          IsTyping(websocket_manager'.typing_users, v, c)
                              = IsTyping(websocket_manager.typing_users, v, c)
              /\ ~websocket_manager'.raised
              /\ SendJson(u, FALSE) =>
                    /\ websocket_manager'.active_connections
                           = Disconnect(websocket_manager, u).active_connections
                    /\ websocket_manager'.typing_users
                           = Disconnect(websocket_manager, u).typing_users
      ]_allVars

\* a send to a user failed who was typing in both conversations, in one
\* of them alone; another user is still connected and typing
C30_Witness ==
    /\ websocket_manager.pc = "serving"
    /\ websocket_manager.call.op = "send_failed"
    /\ websocket_manager.call.removed = ConversationIds
    /\ \E v \in UserIds \ {websocket_manager.call.user_id} :
          /\ websocket_manager.active_connections[v] # NoWebSocket
          /\ TypingIn(websocket_manager.typing_users, v) # {}
    /\ \E c \in ConversationIds : ~websocket_manager.typing_users[c].present

====
